---- MODULE Spec2Model ----
(***************************************************************************)
(* Model of the Gotify webhook forwarder plugin (plugin.go).               *)
(*                                                                         *)
(* The plugin instance holds msgHandler and userCtx; the host routes POST  *)
(* /message requests, any number of them at a time, each in its own        *)
(* context, to handleWebhookMessage, which checks the Content-Type, binds  *)
(* the body to a map, and dispatches to handleGrafanaWebhook (key "alerts" *)
(* present) or handleGenericWebhook.  Each of them normalises the payload  *)
(* to a plugin.Message, hands it to msgHandler.SendMessage and answers.    *)
(*                                                                         *)
(* Go values decoded from JSON are records tagged with their dynamic type: *)
(* "nil", "string", "float64", "bool", "slice", "map".  A Go map is a      *)
(* function from its keys; an extras map is a set of <<key, value>> pairs  *)
(* together with its nil-ness.                                             *)
(***************************************************************************)
EXTENDS Integers, Sequences, FiniteSets, TLC

VARIABLES msgHandler, userCtx, req

vars == <<msgHandler, userCtx, req>>

----------------------------------------------------------------------------
(* Bounds of the explored inputs *)

\* A request payload carries at most this many of the keys the handlers read.
MaxKeys == 3

\* The requests the host serves at the same time.
MaxRequests == 2

----------------------------------------------------------------------------
(* Go values *)

\* int of the 32-bit build (linux-arm-7); the 64-bit builds behave alike for
\* every number modelled here.
MaxInt == 2147483647
MinInt == -MaxInt - 1

GoNil == [t |-> "nil"]
GoString(s) == [t |-> "string", s |-> s]
GoBool(b) == [t |-> "bool", b |-> b]
GoSlice == [t |-> "slice"]
GoMap(kv) == [t |-> "map", kv |-> kv]
\* A float64: sign, whole part, whether it has a non-zero fractional part,
\* and whether its magnitude is beyond the range of int (e.g. 1e300).
GoFloat(neg, whole, frac, big) ==
    [t |-> "float64", neg |-> neg, whole |-> whole, frac |-> frac, big |-> big]

NilExtras == [isNil |-> TRUE, kv |-> {}]

\* m[k] of a Go map: the nil interface when the key is missing.
Get(m, k) == IF k \in DOMAIN m THEN m[k] ELSE GoNil

\* v, ok := m[k].(string); the zero value "" when the assertion fails.
StringOf(m, k) == LET v == Get(m, k) IN IF v.t = "string" THEN v.s ELSE ""

----------------------------------------------------------------------------
(* Inputs *)

\* The Content-Type header of a request: absent, or present with a value
\* (an empty value included).
NoHeader == [present |-> FALSE, value |-> ""]

ContentTypes == {NoHeader} \cup
    {[present |-> TRUE, value |-> v] :
        v \in {"", "application/json", "application/json; charset=utf-8"}}

Keys == {"title", "message", "priority", "extras", "alerts", "status",
         "state", "externalURL", "dashboardURL", "silenceURL"}

PriorityValues ==
    { GoFloat(FALSE, 0, FALSE, FALSE), GoFloat(FALSE, 1, FALSE, FALSE),
      GoFloat(FALSE, 7, FALSE, FALSE), GoFloat(FALSE, 10, FALSE, FALSE),
      GoFloat(FALSE, 10, TRUE, FALSE), GoFloat(FALSE, 15, FALSE, FALSE),
      GoFloat(TRUE, 3, FALSE, FALSE), GoFloat(FALSE, 0, FALSE, TRUE),
      GoString("5") }

ValuesFor(k) ==
    CASE k = "title"    -> {GoString(""), GoString("Test Title"), GoFloat(FALSE, 1, FALSE, FALSE)}
      [] k = "message"  -> {GoString(""), GoString("Test Message"), GoFloat(FALSE, 1, FALSE, FALSE)}
      [] k = "priority" -> PriorityValues
      [] k = "extras"   -> {GoMap({}), GoMap({<<"key", "value">>}),
                            GoMap({<<"source", "grafana">>}), GoString("x")}
      [] k = "alerts"   -> {GoSlice, GoNil, GoString("x"),
                            GoFloat(FALSE, 1, FALSE, FALSE), GoMap({})}
      [] k = "status"   -> {GoString("firing"), GoString("resolved"),
                            GoString("pending"), GoString(""), GoBool(TRUE)}
      [] k = "state"    -> {GoString("alerting"), GoString("ok"),
                            GoString(""), GoFloat(FALSE, 1, FALSE, FALSE)}
      [] OTHER          -> {GoString("http://g/x"), GoString(""), GoNil}

RECURSIVE ObjectsOver(_)
ObjectsOver(S) ==
    IF S = {} THEN {<<>>}
    ELSE LET k == CHOOSE x \in S : TRUE
         IN  {(k :> v) @@ f : v \in ValuesFor(k), f \in ObjectsOver(S \ {k})}

\* The sets of keys a posted JSON object may carry.
KeySets == {T \in SUBSET Keys : Cardinality(T) <= MaxKeys}

\* Request bodies: a JSON object over the keys S, or something that is not
\* a JSON object.
ObjectBodies(S) == {[k |-> "object", m |-> p] : p \in ObjectsOver(S)}

NoBody == [k |-> "empty"]

OtherBodies == {[k |-> x] : x \in {"empty", "invalid", "null", "string",
                                   "number", "array"}}

SinkOutcomes == {[k |-> "ok"], [k |-> "error", e |-> "assert.AnError general error for testing"],
                 [k |-> "panic"]}

----------------------------------------------------------------------------
(* Pure parts of the handlers *)

\* c.JSON(code, gin.H{...})
JSON(code, body) == [code |-> code, body |-> body]


\* c.GetHeader("Content-Type"): "" when the request has no such header.
GetHeader(h) == IF h.present THEN h.value ELSE ""

\* Faulty variant: an absent Content-Type is rejected too.
ContentTypeOKStrict(ct) == ct = "application/json"

\* handleWebhookMessage: the Content-Type check.
ContentTypeOK(ct) == ~(ct # "application/json" /\ ct # "")

\* c.ShouldBindJSON(&rawBody): the decoder's error string ("" for none),
\* whether the map is left nil (JSON null), and the decoded map.
BindJSON(body) ==
    CASE body.k = "object"  -> [err |-> "", isNil |-> FALSE, m |-> body.m]
      [] body.k = "null"    -> [err |-> "", isNil |-> TRUE, m |-> <<>>]
      [] body.k = "empty"   -> [err |-> "EOF", isNil |-> TRUE, m |-> <<>>]
      [] body.k = "invalid" -> [err |-> "invalid character 'o' in literal null (expecting 'u')",
                                isNil |-> TRUE, m |-> <<>>]
      [] OTHER              -> [err |-> "json: cannot unmarshal " \o body.k
                                          \o " into Go value of type map[string]interface {}",
                                isNil |-> TRUE, m |-> <<>>]


\* Faulty variant: only an array under "alerts" selects the Grafana handler.
HasAlertsSlice(rawBody) == Get(rawBody, "alerts").t = "slice"

\* _, hasAlerts := rawBody["alerts"]
HasAlerts(rawBody) == "alerts" \in DOMAIN rawBody


\* Faulty variant: the conversion rounds to nearest instead of truncating.
IntOfFloatRound(f) ==
    IF f.big THEN {MinInt, MaxInt}
    ELSE {IF f.neg THEN -(f.whole + (IF f.frac THEN 1 ELSE 0))
                   ELSE f.whole + (IF f.frac THEN 1 ELSE 0)}

\* int(priority) of a float64: truncation toward zero; for a value the int
\* cannot represent the result is implementation-dependent (the builds
\* either saturate or yield the minimum int).
IntOfFloat(f) ==
    IF f.big THEN {MinInt, MaxInt}
    ELSE {IF f.neg THEN -f.whole ELSE f.whole}

\* The values webhookMsg.Priority can hold after the two type assertions.
ExtractPriority(rawBody) ==
    LET v == Get(rawBody, "priority")
    IN  IF v.t = "float64" THEN IntOfFloat(v)
        ELSE IF v.t = "int" THEN {v.i}
        ELSE {0}

\* Faulty variant: the payload's extras are never copied to webhookMsg.
ExtractExtrasDropped(rawBody) == NilExtras

\* rawBody["extras"].(map[string]interface{})
ExtractExtras(rawBody) ==
    LET v == Get(rawBody, "extras")
    IN  IF v.t = "map" THEN [isNil |-> FALSE, kv |-> v.kv] ELSE NilExtras

\* webhookMsg after the type assertions of handleGenericWebhook.
GenericExtract(rawBody, prio) ==
    [Title    |-> StringOf(rawBody, "title"),
     Message  |-> StringOf(rawBody, "message"),
     Priority |-> prio,
     Extras   |-> ExtractExtras(rawBody)]


\* Faulty variant: the required-field validation is dropped.
GenericValidAny(w) == TRUE

\* Validate required fields.
GenericValid(w) == w.Message # ""

DefaultTitle(title) == IF title = "" THEN "Webhook Message" ELSE title


\* Faulty variant: the upper limit of the priority is not checked.
DefaultPriorityNoUpper(p) == IF p <= 0 THEN 5 ELSE p

DefaultPriority(p) == IF p <= 0 \/ p > 10 THEN 5 ELSE p

\* webhookMsg after the defaults: the plugin.Message handed to SendMessage.
GenericMessage(w) ==
    [Title    |-> DefaultTitle(w.Title),
     Message  |-> w.Message,
     Priority |-> DefaultPriority(w.Priority),
     Extras   |-> w.Extras]


\* Faulty variant: the resolved/ok rule is tested before the firing/alerting rule.
GrafanaPriorityResolvedFirst(status, state) ==
    IF status = "resolved" \/ state = "ok" THEN 3
    ELSE IF status = "firing" \/ state = "alerting" THEN 8
    ELSE 5

GrafanaPriority(status, state) ==
    IF status = "firing" \/ state = "alerting" THEN 8
    ELSE IF status = "resolved" \/ state = "ok" THEN 3
    ELSE 5


\* Faulty variant: the constructed title leaves the status out.
GrafanaTitleNoStatus(title, status) ==
    IF title # "" THEN title ELSE "Grafana Alert"

GrafanaTitle(title, status) ==
    IF title # "" THEN title
    ELSE IF status # "" THEN "Grafana Alert: " \o status
    ELSE "Grafana Alert"

GrafanaBody(message) ==
    IF message # "" THEN message ELSE "Alert notification from Grafana"

\* extras[k] = v when the raw field is a non-empty string.
URLEntry(rawBody, k) ==
    LET v == Get(rawBody, k)
    IN  IF v.t = "string" /\ v.s # "" THEN {<<k, v.s>>} ELSE {}


\* Faulty variant: the payload's own extras are merged into the metadata.
GrafanaExtrasMerged(rawBody, status, state) ==
    [isNil |-> FALSE,
     kv |-> {<<"source", "grafana">>}
              \cup (IF status # "" THEN {<<"status", status>>} ELSE {})
              \cup (IF state # "" THEN {<<"state", state>>} ELSE {})
              \cup URLEntry(rawBody, "externalURL")
              \cup URLEntry(rawBody, "dashboardURL")
              \cup URLEntry(rawBody, "silenceURL")
              \cup ExtractExtras(rawBody).kv]

\* Faulty variant: the source entry is not written.
GrafanaExtrasNoSource(rawBody, status, state) ==
    [isNil |-> FALSE,
     kv |-> (IF status # "" THEN {<<"status", status>>} ELSE {})
              \cup (IF state # "" THEN {<<"state", state>>} ELSE {})
              \cup URLEntry(rawBody, "externalURL")
              \cup URLEntry(rawBody, "dashboardURL")
              \cup URLEntry(rawBody, "silenceURL")]

GrafanaExtras(rawBody, status, state) ==
    [isNil |-> FALSE,
     kv |-> {<<"source", "grafana">>}
              \cup (IF status # "" THEN {<<"status", status>>} ELSE {})
              \cup (IF state # "" THEN {<<"state", state>>} ELSE {})
              \cup URLEntry(rawBody, "externalURL")
              \cup URLEntry(rawBody, "dashboardURL")
              \cup URLEntry(rawBody, "silenceURL")]

\* The plugin.Message handleGrafanaWebhook builds.
GrafanaMessage(rawBody) ==
    LET status == StringOf(rawBody, "status")
        state  == StringOf(rawBody, "state")
    IN  [Title    |-> GrafanaTitle(StringOf(rawBody, "title"), status),
         Message  |-> GrafanaBody(StringOf(rawBody, "message")),
         Priority |-> GrafanaPriority(status, state),
         Extras   |-> GrafanaExtras(rawBody, status, state)]


\* Faulty variant: no deferred function recovers the panic.
RecoveredNothing(path) == <<>>

\* What the deferred functions write when SendMessage panics: the recover()
\* of the handler the panic unwinds through first answers, and
\* handleWebhookMessage's own recover() then finds no panic.
Recovered(path) ==
    IF path = "grafana"
    THEN <<JSON(500, [error |-> "Error processing Grafana webhook",
                      details |-> "Unexpected error in Grafana webhook processing"])>>
    ELSE <<JSON(500, [error |-> "Error processing generic webhook",
                      details |-> "Unexpected error in webhook processing"])>>


\* Faulty variant: the error SendMessage returned is ignored.
SendResponseIgnoringError(path, outcome) ==
    IF path = "grafana"
    THEN JSON(200, [success |-> TRUE, message |-> "Grafana alert forwarded successfully",
                    type |-> "grafana"])
    ELSE JSON(200, [success |-> TRUE, message |-> "Message forwarded successfully"])

\* The response after SendMessage returned err (nil: outcome "ok").
SendResponse(path, outcome) ==
    IF outcome.k = "error"
    THEN JSON(500, [error |-> IF path = "grafana" THEN "Failed to forward Grafana alert"
                                                  ELSE "Failed to forward message",
                    details |-> outcome.e])
    ELSE IF path = "grafana"
    THEN JSON(200, [success |-> TRUE, message |-> "Grafana alert forwarded successfully",
                    type |-> "grafana"])
    ELSE JSON(200, [success |-> TRUE, message |-> "Message forwarded successfully"])

Unavailable == JSON(503, [error |-> "Message handler not available"])

----------------------------------------------------------------------------
(* State *)

NoMessage == [Title |-> "", Message |-> "", Priority |-> 0, Extras |-> NilExtras]

\* A request context the host has not yet routed a request to.
Idle ==
    [pc          |-> "idle",
     header      |-> NoHeader,
     body        |-> NoBody,
     bound       |-> FALSE,
     rawBody     |-> <<>>,
     path        |-> "none",
     built       |-> FALSE,
     msg         |-> NoMessage,
     sent        |-> <<>>,
     outcome     |-> [k |-> "none"],
     resp        |-> <<>>,
     escaped     |-> FALSE]

\* The request contexts the host serves.
Requests == {"r1"}

Handlers == {"nil", "handler"}

\* The user contexts the host creates plugin instances for.
UserContexts == {[Name |-> "testuser"]}

\* NewGotifyPluginInstance stores the user context and leaves msgHandler nil.
Init ==
    /\ msgHandler = "nil"
    /\ userCtx \in UserContexts
    /\ req = [r \in Requests |-> Idle]

\* The host installs the message handler while it serves no request.
SetMessageHandler(h) ==
    /\ \A r \in DOMAIN req : req[r].pc = "idle"
    /\ msgHandler' = h
    /\ UNCHANGED <<userCtx, req>>

\* A request as the router hands it to handleWebhookMessage.
Routed(ct, body) == [Idle EXCEPT !.pc = "handle", !.header = ct, !.body = body]

Route(r, ct, body) == req' = [req EXCEPT ![r] = Routed(ct, body)]

\* The router hands a POST /message, with any Content-Type and body, to
\* handleWebhookMessage.
Receive(r) ==
    /\ req[r].pc = "idle"
    /\ \E ct \in ContentTypes :
          \/ \E body \in OtherBodies : Route(r, ct, body)
          \/ \E S \in KeySets : \E body \in ObjectBodies(S) : Route(r, ct, body)
    /\ UNCHANGED <<msgHandler, userCtx>>

\* c.JSON(...); return
Respond(q, response) == [q EXCEPT !.pc = "done", !.resp = Append(@, response)]

\* The forward step both handlers share: call SendMessage, or answer 503.
Forward(q, m) ==
    IF msgHandler # "nil"
    THEN [q EXCEPT !.built = TRUE, !.msg = m, !.sent = Append(@, m), !.pc = "sending"]
    ELSE Respond([q EXCEPT !.built = TRUE, !.msg = m], Unavailable)

\* handleGenericWebhook up to the call of SendMessage; prio is the value
\* the conversion int(priority) produced.
HandleGenericWebhook(q, prio) ==
    LET w == GenericExtract(q.rawBody, prio)
    IN  IF ~GenericValid(w)
        THEN Respond(q, JSON(400, [error |-> "Message field is required"]))
        ELSE Forward(q, GenericMessage(w))

\* handleGrafanaWebhook up to the call of SendMessage.
HandleGrafanaWebhook(q) == Forward(q, GrafanaMessage(q.rawBody))

\* handleWebhookMessage from ShouldBindJSON on; prio is the value the
\* conversion int(priority) produces in handleGenericWebhook.
Bind(q, prio) ==
    LET b == BindJSON(q.body)
        p == [q EXCEPT !.bound = TRUE]
    IN  IF b.err # ""
        THEN Respond(p, JSON(400, [error |-> "Invalid JSON payload", details |-> b.err]))
        ELSE IF b.isNil
        THEN Respond(p, JSON(400, [error |-> "Empty request body"]))
        ELSE IF HasAlerts(b.m)
        THEN HandleGrafanaWebhook([p EXCEPT !.rawBody = b.m, !.path = "grafana"])
        ELSE HandleGenericWebhook([p EXCEPT !.rawBody = b.m, !.path = "generic"], prio)

\* handleWebhookMessage, up to its response or to the call of SendMessage in
\* the handler it dispatches to.
HandleWebhookMessage(r) ==
    /\ req[r].pc = "handle"
    /\ IF ~ContentTypeOK(GetHeader(req[r].header))
       THEN req' = [req EXCEPT ![r] =
                Respond(@, JSON(400, [error |-> "Content-Type must be application/json"]))]
       ELSE \E prio \in ExtractPriority(BindJSON(req[r].body).m) :
                req' = [req EXCEPT ![r] = Bind(@, prio)]
    /\ UNCHANGED <<msgHandler, userCtx>>

\* Faulty variant: the handler drops the message handler after a failed send.
SendMessageReturnDropsHandler(r, o) ==
    /\ req[r].pc = "sending"
    /\ req' = [req EXCEPT ![r].outcome = o, ![r].pc = "done",
                          ![r].resp = IF o.k = "panic"
                                      THEN @ \o Recovered(req[r].path)
                                      ELSE Append(@, SendResponse(req[r].path, o)),
                          ![r].escaped = (o.k = "panic" /\ Recovered(req[r].path) = <<>>)]
    /\ msgHandler' = (IF o.k = "error" THEN "nil" ELSE msgHandler)
    /\ UNCHANGED userCtx

\* SendMessage returns nil or an error, or panics; the handler answers: a
\* panic unwinds to the handler's deferred recover().
SendMessageReturn(r, o) ==
    /\ req[r].pc = "sending"
    /\ req' = [req EXCEPT ![r].outcome = o, ![r].pc = "done",
                          ![r].resp = IF o.k = "panic"
                                      THEN @ \o Recovered(req[r].path)
                                      ELSE Append(@, SendResponse(req[r].path, o)),
                          ![r].escaped = (o.k = "panic" /\ Recovered(req[r].path) = <<>>)]
    /\ UNCHANGED <<msgHandler, userCtx>>

\* The response is written; the request context is discarded.
Complete(r) ==
    /\ req[r].pc = "done"
    /\ req' = [req EXCEPT ![r] = Idle]
    /\ UNCHANGED <<msgHandler, userCtx>>

Next ==
    \/ \E h \in Handlers : SetMessageHandler(h)
    \/ \E r \in Requests : Receive(r)
    \/ \E r \in Requests : HandleWebhookMessage(r)
    \/ \E r \in Requests, o \in SinkOutcomes : SendMessageReturn(r, o)
    \/ \E r \in Requests : Complete(r)

Spec == Init /\ [][Next]_vars

\* One request from its routing to its response: the plugin with or without
\* a message handler, and a request the router has just handed over.
RoutedInit ==
    /\ msgHandler \in Handlers
    /\ userCtx \in UserContexts
    /\ \E ct \in ContentTypes :
          \/ \E body \in OtherBodies : req = [r \in Requests |-> Routed(ct, body)]
          \/ \E S \in KeySets : \E body \in ObjectBodies(S) :
                req = [r \in Requests |-> Routed(ct, body)]

HandlingNext ==
    \/ \E r \in Requests : HandleWebhookMessage(r)
    \/ \E r \in Requests, o \in SinkOutcomes : SendMessageReturn(r, o)
    \/ \E r \in Requests : Complete(r)

\* The scheduler runs a routed handler, and a call of SendMessage ends (it
\* returns or panics).
FairSpec ==
    /\ RoutedInit
    /\ [][HandlingNext]_vars
    /\ WF_vars(\E r \in Requests : HandleWebhookMessage(r))
    /\ WF_vars(\E r \in Requests, o \in SinkOutcomes : SendMessageReturn(r, o))

----------------------------------------------------------------------------
(* Requests served at the same time *)

\* The host runs each request's handler in a goroutine of its own.
ConcRequests == 1..MaxRequests

ConcContentTypes ==
    {[present |-> TRUE, value |-> v] :
        v \in {"application/json", "application/json; charset=utf-8"}}

\* Representative bodies: a payload for each handler, a payload whose
\* priority int cannot represent, one without message, and JSON null.
ConcBodies ==
    {[k |-> "null"]} \cup
    {[k |-> "object", m |-> p] : p \in
        { <<>>,
          ("message" :> GoString("Test Message"))
              @@ ("extras" :> GoMap({<<"key", "value">>})),
          ("message" :> GoString("Test Message"))
              @@ ("priority" :> GoFloat(FALSE, 0, FALSE, TRUE)),
          ("alerts" :> GoSlice) @@ ("status" :> GoString("firing")) }}

ConcInit ==
    /\ msgHandler = "nil"
    /\ userCtx \in UserContexts
    /\ req = [r \in ConcRequests |-> Idle]

ConcReceive(r) ==
    /\ req[r].pc = "idle"
    /\ \E ct \in ConcContentTypes, body \in ConcBodies : Route(r, ct, body)
    /\ UNCHANGED <<msgHandler, userCtx>>

\* The handlers of the requests in flight take their steps in any order.
ConcNext ==
    \/ \E h \in Handlers : SetMessageHandler(h)
    \/ \E r \in ConcRequests : ConcReceive(r)
    \/ \E r \in ConcRequests : HandleWebhookMessage(r)
    \/ \E r \in ConcRequests, o \in SinkOutcomes : SendMessageReturn(r, o)
    \/ \E r \in ConcRequests : Complete(r)

ConcSpec == ConcInit /\ [][ConcNext]_vars

----------------------------------------------------------------------------
(* Properties *)

\* Requests whose body was bound to a map and dispatched to a handler.
Dispatched(r) == req[r].pc \in {"sending", "done"} /\ req[r].path # "none"

Answered(r) == req[r].pc = "done" /\ Len(req[r].resp) = 1

\* The payload's field k as the claims read it: its string, "" when the
\* field is absent or no string.
Field(r, k) ==
    IF k \in DOMAIN req[r].rawBody /\ req[r].rawBody[k].t = "string"
    THEN req[r].rawBody[k].s ELSE ""

\* C1: every Notification handed to SendMessage, on either path, has a
\* priority in 1..10 and a non-empty Message.
C1_PriorityAndBodyValid ==
    \A r \in Requests : \A i \in 1..Len(req[r].sent) :
        /\ req[r].sent[i].Priority \in 1..10
        /\ req[r].sent[i].Message # ""

\* C1 witness: a generic payload with priority 15 was handed to SendMessage.
C1_Witness ==
    \E r \in Requests :
        /\ req[r].path = "generic"
        /\ Len(req[r].sent) = 1
        /\ "priority" \in DOMAIN req[r].rawBody
        /\ req[r].rawBody["priority"] = GoFloat(FALSE, 15, FALSE, FALSE)

\* C2: on the generic path a non-empty string message normalises to a
\* Notification (no 400); an absent, non-string or empty message is answered
\* 400 and SendMessage is not called, whether or not msgHandler is set.
C2_GenericMessageRequired ==
    \A r \in Requests :
        (Dispatched(r) /\ req[r].path = "generic") =>
            IF Field(r, "message") # ""
            THEN /\ req[r].built
                 /\ req[r].msg.Message = Field(r, "message")
                 /\ (req[r].pc = "done" => \A i \in 1..Len(req[r].resp) :
                                              req[r].resp[i].code # 400)
            ELSE /\ ~req[r].built
                 /\ Answered(r)
                 /\ req[r].resp[1].code = 400
                 /\ req[r].sent = <<>>

\* C2 witness: the payload {} was answered 400 with the handler installed.
C2_Witness ==
    \E r \in Requests :
        /\ msgHandler # "nil"
        /\ req[r].path = "generic"
        /\ req[r].body = [k |-> "object", m |-> <<>>]
        /\ Answered(r)
        /\ req[r].resp[1].code = 400
        /\ req[r].sent = <<>>

\* C3: a decoded object is handled on the Grafana path iff it has the key
\* "alerts", whatever its value, and on the generic path otherwise; a 200
\* response carries "type":"grafana" exactly on the Grafana path.
C3_GrafanaIffAlertsKey ==
    \A r \in Requests :
        (req[r].pc \in {"sending", "done"} /\ req[r].bound /\ req[r].body.k = "object") =>
            /\ req[r].path = (IF "alerts" \in DOMAIN req[r].body.m
                              THEN "grafana" ELSE "generic")
            /\ \A i \in 1..Len(req[r].resp) :
                 req[r].resp[i].code = 200 =>
                    (("type" \in DOMAIN req[r].resp[i].body
                        /\ req[r].resp[i].body.type = "grafana")
                     <=> "alerts" \in DOMAIN req[r].body.m)

\* C3 witness: a payload with "alerts": null was answered 200 as Grafana.
C3_Witness ==
    \E r \in Requests :
        /\ req[r].body.k = "object"
        /\ "alerts" \in DOMAIN req[r].body.m
        /\ req[r].body.m["alerts"] = GoNil
        /\ req[r].path = "grafana"
        /\ Answered(r)
        /\ req[r].resp[1].code = 200
        /\ req[r].resp[1].body.type = "grafana"

\* C4: on the generic path with a valid message the priority is the input
\* number truncated toward zero when that lies in 1..10, and 5 otherwise
\* (truncation <= 0 or > 10, priority absent or no number).
C4_GenericPriority ==
    \A r \in Requests :
        (Dispatched(r) /\ req[r].path = "generic" /\ req[r].built) =>
            LET v == Get(req[r].rawBody, "priority")
                inRange == v.t = "float64" /\ ~v.big /\ ~v.neg /\ v.whole \in 1..10
                expected == IF inRange THEN v.whole ELSE 5
            IN  /\ req[r].msg.Priority = expected
                /\ \A i \in 1..Len(req[r].sent) : req[r].sent[i].Priority = expected

\* C4 witness: priority 10.5 was delivered as 10.
C4_Witness ==
    \E r \in Requests :
        /\ req[r].path = "generic"
        /\ Get(req[r].rawBody, "priority") = GoFloat(FALSE, 10, TRUE, FALSE)
        /\ Len(req[r].sent) = 1
        /\ req[r].sent[1].Priority = 10

\* C5: on the Grafana path the priority is 8 if status is "firing" or state
\* is "alerting"; else 3 if status is "resolved" or state is "ok"; else 5.
\* A non-string status or state counts as empty.
C5_GrafanaPriority ==
    \A r \in Requests :
        (Dispatched(r) /\ req[r].path = "grafana") =>
            LET high == Field(r, "status") = "firing" \/ Field(r, "state") = "alerting"
                low  == Field(r, "status") = "resolved" \/ Field(r, "state") = "ok"
                p    == req[r].msg.Priority
            IN  /\ high => p = 8
                /\ (~high /\ low) => p = 3
                /\ (~high /\ ~low) => p = 5
                /\ \A i \in 1..Len(req[r].sent) : req[r].sent[i].Priority = p

\* C5 witness: status "resolved" with state "alerting" was delivered with 8.
C5_Witness ==
    \E r \in Requests :
        /\ req[r].path = "grafana"
        /\ Field(r, "status") = "resolved"
        /\ Field(r, "state") = "alerting"
        /\ Len(req[r].sent) = 1
        /\ req[r].sent[1].Priority = 8

SourceGrafana == <<"source", "grafana">>

\* C6 as stated: delivered metadata has source = "grafana" on the Grafana
\* path and never on the generic path.
C6_SourceOnlyOnGrafanaPath ==
    \A r \in Requests : \A i \in 1..Len(req[r].sent) :
        SourceGrafana \in req[r].sent[i].Extras.kv <=> req[r].path = "grafana"

\* C6 amended: delivered metadata has source = "grafana" on the Grafana
\* path; on the generic path it has it exactly when the payload's own extras
\* object has it.
C6_SourceFromPathOrPayload ==
    \A r \in Requests : \A i \in 1..Len(req[r].sent) :
        LET e == Get(req[r].rawBody, "extras")
        IN  SourceGrafana \in req[r].sent[i].Extras.kv <=>
                \/ req[r].path = "grafana"
                \/ (e.t = "map" /\ SourceGrafana \in e.kv)

\* C6 witness: a generic payload whose extras carry source = "grafana" was
\* handed to SendMessage with it.
C6_Witness ==
    \E r \in Requests :
        /\ req[r].path = "generic"
        /\ Len(req[r].sent) = 1
        /\ SourceGrafana \in req[r].sent[1].Extras.kv

\* C7: after a successful normalisation, a nil msgHandler gives 503 and no
\* call of SendMessage; otherwise SendMessage is called exactly once with
\* the Notification, answered 200 when it returns nil and 500 with the
\* error's string under details when it returns an error.  No request calls
\* SendMessage twice, and no 200 is answered without a successful send.
C7_Delivery ==
    \A r \in Requests :
        /\ Len(req[r].sent) <= 1
        /\ \A i \in 1..Len(req[r].resp) :
             req[r].resp[i].code = 200 =>
                (Len(req[r].sent) = 1 /\ req[r].outcome.k = "ok")
        /\ (req[r].pc = "done" /\ req[r].built) =>
             IF msgHandler = "nil"
             THEN /\ req[r].sent = <<>>
                  /\ Answered(r)
                  /\ req[r].resp[1].code = 503
             ELSE /\ req[r].sent = <<req[r].msg>>
                  /\ req[r].outcome.k = "ok" =>
                        (Answered(r) /\ req[r].resp[1].code = 200)
                  /\ req[r].outcome.k = "error" =>
                        /\ Answered(r)
                        /\ req[r].resp[1].code = 500
                        /\ req[r].resp[1].body.details = req[r].outcome.e

\* C7 witness: SendMessage returned an error and the request was answered
\* 500.
C7_Witness ==
    \E r \in Requests :
        /\ req[r].pc = "done"
        /\ req[r].outcome.k = "error"
        /\ Len(req[r].sent) = 1
        /\ req[r].resp[1].code = 500

\* A request rejected at the boundary: one 400 response, no dispatch, no
\* call of SendMessage.
Rejected(r) ==
    /\ Answered(r)
    /\ req[r].resp[1].code = 400
    /\ req[r].path = "none"
    /\ req[r].sent = <<>>

\* C8 as stated: a Content-Type that is present and not "application/json"
\* is answered 400 before the body is decoded; an absent one is not rejected
\* for that; a body that does not decode to a JSON object is answered 400;
\* none of them calls SendMessage.
C8_BoundaryRejection ==
    \A r \in Requests :
        req[r].pc = "done" =>
            /\ (req[r].header.present /\ req[r].header.value # "application/json") =>
                  (Rejected(r) /\ ~req[r].bound)
            /\ ~req[r].header.present =>
                  /\ req[r].bound
                  /\ (req[r].body.k = "object" => req[r].path # "none")
            /\ (req[r].bound /\ req[r].body.k # "object") => Rejected(r)

\* C8 amended: a Content-Type whose value is non-empty and not
\* "application/json" is answered 400 before the body is decoded; an absent
\* or empty one is not rejected for that; a body that does not decode to a
\* JSON object is answered 400; none of them calls SendMessage.
C8_BoundaryRejectionNonEmpty ==
    \A r \in Requests :
        req[r].pc = "done" =>
            /\ (req[r].header.present /\ req[r].header.value \notin {"", "application/json"}) =>
                  (Rejected(r) /\ ~req[r].bound)
            /\ (~req[r].header.present \/ req[r].header.value = "") =>
                  /\ req[r].bound
                  /\ (req[r].body.k = "object" => req[r].path # "none")
            /\ (req[r].bound /\ req[r].body.k # "object") => Rejected(r)

\* C8 witness: a request with Content-Type "application/json; charset=utf-8"
\* and a JSON object body was answered 400 without its body being decoded.
C8_Witness ==
    \E r \in Requests :
        /\ req[r].header = [present |-> TRUE, value |-> "application/json; charset=utf-8"]
        /\ req[r].body.k = "object"
        /\ Rejected(r)
        /\ ~req[r].bound

PlaceholderDetails ==
    {"Plugin encountered an unexpected error",
     "Unexpected error in webhook processing",
     "Unexpected error in Grafana webhook processing"}

\* The request has completed with one well-formed response and no escaped
\* panic.
Completed(r) ==
    /\ Answered(r)
    /\ req[r].resp[1].code \in {200, 400, 500, 503}
    /\ ~req[r].escaped
    /\ req[r].outcome.k = "panic" =>
          /\ req[r].resp[1].code = 500
          /\ req[r].resp[1].body.details \in PlaceholderDetails

C10_GrafanaFallbacks ==
    \A r \in Requests :
        (Dispatched(r) /\ req[r].path = "grafana") =>
            LET m == req[r].msg
            IN  /\ req[r].built
                /\ Field(r, "title") # "" => m.Title = Field(r, "title")
                /\ (Field(r, "title") = "" /\ Field(r, "status") # "") =>
                      m.Title = "Grafana Alert: " \o Field(r, "status")
                /\ (Field(r, "title") = "" /\ Field(r, "status") = "") =>
                      m.Title = "Grafana Alert"
                /\ Field(r, "message") # "" => m.Message = Field(r, "message")
                /\ Field(r, "message") = "" =>
                      m.Message = "Alert notification from Grafana"
                /\ \A i \in 1..Len(req[r].sent) : req[r].sent[i] = m
                /\ \A i \in 1..Len(req[r].resp) : req[r].resp[i].code # 400

\* C10 witness: a Grafana payload without title and with status "firing"
\* was delivered as "Grafana Alert: firing" with the fallback body.
C10_Witness ==
    \E r \in Requests :
        /\ req[r].path = "grafana"
        /\ "title" \notin DOMAIN req[r].rawBody
        /\ Field(r, "status") = "firing"
        /\ Len(req[r].sent) = 1
        /\ req[r].sent[1].Title = "Grafana Alert: firing"
        /\ req[r].sent[1].Message = "Alert notification from Grafana"

\* C11: on the generic path every Notification handed to SendMessage has
\* as title the payload's title when that is a non-empty string and
\* "Webhook Message" otherwise, as body the payload's message string
\* unchanged, and as metadata the entries of the payload's extras when that
\* is a JSON object and no entry otherwise; a non-object extras is no error
\* (the request is not answered 400).
C11_GenericNotification ==
    \A r \in Requests : \A i \in 1..Len(req[r].sent) :
        req[r].path = "generic" =>
            LET n == req[r].sent[i]
                b == req[r].rawBody
            IN  /\ n.Title = (IF Field(r, "title") # ""
                              THEN b["title"].s ELSE "Webhook Message")
                /\ "message" \in DOMAIN b
                /\ b["message"].t = "string"
                /\ n.Message = b["message"].s
                /\ n.Extras.kv = (IF "extras" \in DOMAIN b /\ b["extras"].t = "map"
                                  THEN b["extras"].kv ELSE {})
                /\ ("extras" \in DOMAIN b /\ b["extras"].t = "map") => ~n.Extras.isNil
                /\ \A j \in 1..Len(req[r].resp) : req[r].resp[j].code # 400

\* C11 witness: a payload with a message, an extras object and no title was
\* delivered under the default title, with its message and its extras, and
\* answered 200.
C11_Witness ==
    \E r \in Requests :
        /\ req[r].path = "generic"
        /\ Len(req[r].sent) = 1
        /\ "title" \notin DOMAIN req[r].rawBody
        /\ Get(req[r].rawBody, "extras") = GoMap({<<"key", "value">>})
        /\ req[r].sent[1].Title = "Webhook Message"
        /\ req[r].sent[1].Message = "Test Message"
        /\ req[r].sent[1].Extras.kv = {<<"key", "value">>}
        /\ Answered(r)
        /\ req[r].resp[1].code = 200

\* The payload fields handleGrafanaWebhook copies to the metadata.
CopiedFields == {"status", "state", "externalURL", "dashboardURL", "silenceURL"}

\* The payload without the fields k of K.
Without(b, K) == [k \in DOMAIN b \ K |-> b[k]]

\* C12: on the Grafana path the metadata handed to SendMessage is exactly
\* source = "grafana" plus, for each of status, state, externalURL,
\* dashboardURL and silenceURL, an entry with the payload's value iff that
\* value is a non-empty string; and the Notification is the one the same
\* payload without its extras and priority fields yields, with a priority
\* of 3, 5 or 8.
C12_GrafanaMetadata ==
    \A r \in Requests : \A i \in 1..Len(req[r].sent) :
        req[r].path = "grafana" =>
            LET n == req[r].sent[i]
            IN  /\ ~n.Extras.isNil
                /\ n.Extras.kv =
                      {<<"source", "grafana">>} \cup
                      {<<k, Field(r, k)>> : k \in {f \in CopiedFields : Field(r, f) # ""}}
                /\ n.Priority \in {3, 5, 8}
                /\ n = GrafanaMessage(Without(req[r].rawBody, {"extras", "priority"}))

\* C12 witness: a Grafana payload that carries its own extras and priority
\* was delivered with the source entry alone and priority 5.
C12_Witness ==
    \E r \in Requests :
        /\ req[r].path = "grafana"
        /\ Len(req[r].sent) = 1
        /\ Get(req[r].rawBody, "extras") = GoMap({<<"key", "value">>})
        /\ Get(req[r].rawBody, "priority") = GoFloat(FALSE, 1, FALSE, FALSE)
        /\ req[r].sent[1].Extras.kv = {<<"source", "grafana">>}
        /\ req[r].sent[1].Priority = 5

\* A step of the handler of request r.
HandlerStep(r) == req[r].pc \in {"handle", "sending"} /\ req'[r] # req[r]

\* What the client and the sink see of request r.
Observed(r) == [sent |-> req[r].sent, resp |-> req[r].resp]

\* What they see of a request with header h and body b handled alone, with
\* the plugin's message handler and a sink whose SendMessage ends as o.
Alone(h, b, o) ==
    LET q0 == Routed(h, b)
        handled ==
            IF ~ContentTypeOK(GetHeader(h))
            THEN {Respond(q0, JSON(400, [error |-> "Content-Type must be application/json"]))}
            ELSE {Bind(q0, prio) : prio \in ExtractPriority(BindJSON(b).m)}
    IN  {[sent |-> q.sent,
          resp |-> IF q.pc # "sending" THEN q.resp
                   ELSE IF o.k = "panic" THEN Recovered(q.path)
                   ELSE <<SendResponse(q.path, o)>>] : q \in handled}

\* C13: a step of a request's handler leaves msgHandler, userCtx and every
\* other request's context unchanged; with requests handled in any
\* interleaving, the Notification delivered and the response of each
\* answered request are the ones the same header, body, message handler
\* and sink outcome yield when the request is handled alone; and two
\* requests with the same body deliver identical Notifications.
C13_NoHiddenState ==
    /\ [][\A r \in ConcRequests :
              HandlerStep(r) =>
                  /\ msgHandler' = msgHandler
                  /\ userCtx' = userCtx
                  /\ \A s \in ConcRequests \ {r} : req'[s] = req[s]]_vars
    /\ [](\A r \in ConcRequests :
              req[r].pc = "done" =>
                  Alone(req[r].header, req[r].body, req[r].outcome) = {Observed(r)})
    /\ [](\A r, s \in ConcRequests :
              (req[r].body = req[s].body /\ req[r].sent # <<>> /\ req[s].sent # <<>>) =>
                  req[r].sent = req[s].sent)

\* C13 witness: two requests with the same payload are answered, one 200
\* and one 500 as the sink returned, and delivered the same Notification.
C13_Witness ==
    /\ req[1].pc = "done"
    /\ req[2].pc = "done"
    /\ req[1].body = req[2].body
    /\ req[1].body.k = "object"
    /\ Get(req[1].body.m, "priority") = GoFloat(FALSE, 0, FALSE, TRUE)
    /\ Len(req[1].sent) = 1
    /\ req[1].sent = req[2].sent
    /\ req[1].resp[1].code = 200
    /\ req[2].resp[1].code = 500

====
